---------------------------- MODULE Spec2Model ----------------------------
(***************************************************************************)
(* Pack calculator: the decomposition engine (internal/algorithm) and the  *)
(* adaptive-TTL result cache (internal/cache) behind the HTTP calculate    *)
(* handler (internal/api).                                                 *)
(*                                                                         *)
(* SpecCalc   : Calculate / Validate applied to bounded inputs.            *)
(* SpecStream : Calculate run a stretch of table indices per step, for     *)
(*              inputs whose tables are too long to hold in one value.     *)
(* SpecCache  : the operations of Cache called one after another on a      *)
(*              store that expires entries and can fail on any call.       *)
(* SpecHTTP   : the calculate, pack-config and cache-clear handlers over   *)
(*              the cache and the repository.                              *)
(* SpecKey    : generateKey applied to two bounded argument lists.         *)
(* SpecStore  : SpecCache and SpecHTTP side by side.                       *)
(* SpecRace   : concurrent callers of the cache, the read and the          *)
(*              write-back of a Get being separate steps.                  *)
(* SpecPair   : Calculate applied to a list and then to a rearrangement of *)
(*              it with the same values.                                   *)
(***************************************************************************)
EXTENDS Integers, Sequences, FiniteSets, TLC

(***************************************************************************)
(* Bounds of the model.                                                    *)
(***************************************************************************)
MaxOrder == 10      \* orders are drawn from -1 .. MaxOrder
MaxPackSize == 5    \* pack sizes are drawn from -MaxNeg .. MaxPackSize
MaxNeg == 1
MaxLen == 3         \* packSizes lists have 0 .. MaxLen members
MaxHits == 10       \* SpecCache, one key: hits followed on its entry
MaxHitsWide == 1    \* SpecCache, several keys: hits followed on an entry
MaxMisses == 1      \* SpecCache: misses counted in stats:misses
MaxHitsHTTP == 2    \* SpecHTTP: hits followed on an entry

(***************************************************************************)
(* Program constants.                                                      *)
(***************************************************************************)
MaxInt32 == 2147483647

VARIABLES
    order,      \* Calculate's argument order
    packSizes,  \* Calculate's argument packSizes ([]int)
    result,     \* what the call produced
    run,        \* SpecCalc: the tables and loop counts of the Calculate call
    first,      \* SpecPair: packSizes and result of the first of two calls
    valid,      \* what Validate(packSizes) returned
    pc,         \* the step a run is at; the exploration it belongs to
    iFill,      \* SpecStream: the index i of the fill loop (line 57)
    win,        \* SpecStream: the entries of the tables still readable
    chunk,      \* SpecStream: iterations of the fill loop taken per step
    sel,        \* SpecStream: bestItems / bestPacks of the scan (line 71)
    enabled,    \* Cache.enabled
    redis,      \* the key/value store behind Cache.client: key -> value, TTL
    last,       \* SpecCache: the last Cache call, its arguments and returns
    chain,      \* SpecCache: per key, the Gets since the Set that stored it
    tally,      \* SpecCache: the Gets found and not found since the last Clear
    dbSizes,    \* SpecHTTP: the rows of the pack_sizes table, ascending
    req,        \* SpecHTTP: the last request
    resp,       \* SpecHTTP: the response to it
    keyIn,      \* SpecKey: two argument lists (items, packSizes) of generateKey
    keyOut,     \* SpecKey: the keys generateKey returned for them
    pend,       \* SpecRace: per caller, the Get between its read and write-back
    puts,       \* SpecRace: per key, the decompositions passed to Set so far
    cleared     \* SpecRace: keys a Clear removed, no Set called for them since

calcVars == <<order, packSizes, result, run, first, valid, pc>>
streamVars == <<iFill, win, chunk, sel>>
cacheVars == <<enabled, redis, last, chain, tally>>
httpVars == <<dbSizes, req, resp>>
auxVars == <<keyIn, keyOut, pend, puts, cleared>>
vars == <<order, packSizes, result, run, first, valid, pc, iFill, win, chunk,
          sel, enabled, redis, last, chain, tally, dbSizes, req, resp, keyIn,
          keyOut, pend, puts, cleared>>

(***************************************************************************)
(* sort.Ints: ascending insertion sort.                                    *)
(***************************************************************************)
RECURSIVE InsertSorted(_, _)
InsertSorted(x, s) ==
    IF s = << >> THEN <<x>>
    ELSE IF x <= Head(s) THEN <<x>> \o s
    ELSE <<Head(s)>> \o InsertSorted(x, Tail(s))

\* faulty variant: the copy is left in the order given
SortIntsKeep(s) == s

RECURSIVE SortInts(_)
SortInts(s) ==
    IF s = << >> THEN << >> ELSE InsertSorted(Head(s), SortInts(Tail(s)))

(***************************************************************************)
(* A Go map[int]int as a function whose domain is the set of keys.         *)
(***************************************************************************)
EmptyMap == [k \in {} |-> 0]

\* faulty variant: stores 1 instead of incrementing the count
MapIncrOverwrite(m, k) ==
    [x \in DOMAIN m \cup {k} |-> IF x = k THEN 1 ELSE m[x]]

MapIncr(m, k) ==
    [x \in DOMAIN m \cup {k} |-> IF x = k
                                 THEN (IF k \in DOMAIN m THEN m[k] ELSE 0) + 1
                                 ELSE m[x]]

(***************************************************************************)
(* Result values.  outcome is "returned" for a normal return, "panic" for  *)
(* a runtime panic (index out of range, negative make length) and "loop"   *)
(* for a backtracking loop that makes no progress.                         *)
(***************************************************************************)
MkResult(pcs, ti, tp, w) ==
    [outcome |-> "returned", PackCounts |-> pcs,
     TotalItems |-> ti, TotalPacks |-> tp, Waste |-> w]

EmptyResult == MkResult(EmptyMap, 0, 0, 0)

Abnormal(o) ==
    [outcome |-> o, PackCounts |-> EmptyMap,
     TotalItems |-> 0, TotalPacks |-> 0, Waste |-> 0]

NoResult == Abnormal("none")

NoFirst == [packSizes |-> << >>, result |-> NoResult]

(***************************************************************************)
(* Calculate, optimizer.go.                                                *)
(***************************************************************************)
\* faulty variant: the empty-list guard of line 30 is missing
DegenerateOrderOnly(o, ps) == o <= 0

\* the early returns of lines 26-32
Degenerate(o, ps) == o <= 0 \/ Len(ps) = 0

\* faulty variant: the table stops at the order, no room for overfill
LimitNoOverfill(o, maxSize) == o

\* line 43
Limit(o, maxSize) == o + maxSize

\* faulty variant: the first size that reaches an entry keeps it
BetterFirstFound(cand, cur) == cur = MaxInt32

\* faulty variant: a candidate that merely ties replaces the entry too
BetterOrEqual(cand, cur) == cand <= cur

\* line 60: the candidate replaces the entry only when strictly better
Better(cand, cur) == cand < cur

\* faulty variant: the base case dp[0] = 0 of line 51 is missing
InitTablesNoBase(limit) ==
    [dp     |-> [i \in 0..limit |-> MaxInt32],
     parent |-> [i \in 0..limit |-> 0],
     panic  |-> FALSE,
     steps  |-> 0]

\* lines 47-54: dp[0] = 0, every other dp entry "infinite", parent all 0
InitTables(limit) ==
    [dp     |-> [i \in 0..limit |-> IF i = 0 THEN 0 ELSE MaxInt32],
     parent |-> [i \in 0..limit |-> 0],
     panic  |-> FALSE,
     steps  |-> 0]

\* lines 58-65: the inner loop over sizes for one i, from position j on
RECURSIVE FillSizes(_, _, _, _)
FillSizes(t, i, sizes, j) ==
    IF t.panic \/ j > Len(sizes) THEN t
    ELSE LET size == sizes[j]
             t1   == [t EXCEPT !.steps = @ + 1]
         IN  IF size <= i
             THEN IF (i - size) \notin DOMAIN t.dp
                  THEN [t1 EXCEPT !.panic = TRUE]
                  ELSE IF t.dp[i - size] # MaxInt32
                          /\ Better(t.dp[i - size] + 1, t.dp[i])
                       THEN FillSizes([t1 EXCEPT !.dp[i] = t.dp[i - size] + 1,
                                                 !.parent[i] = size],
                                      i, sizes, j + 1)
                       ELSE FillSizes(t1, i, sizes, j + 1)
             ELSE FillSizes(t1, i, sizes, j + 1)

\* faulty variant: the outer loop stops one index short of limit
RECURSIVE FillTableShort(_, _, _, _)
FillTableShort(t, i, limit, sizes) ==
    IF t.panic \/ i >= limit THEN t
    ELSE FillTableShort(FillSizes(t, i, sizes, 1), i + 1, limit, sizes)

\* lines 57-66: the outer loop, from i up to limit
RECURSIVE FillTable(_, _, _, _)
FillTable(t, i, limit, sizes) ==
    IF t.panic \/ i > limit THEN t
    ELSE FillTable(FillSizes(t, i, sizes, 1), i + 1, limit, sizes)

\* faulty variant: prefers the total with the fewest packs in the range
RECURSIVE ScanFewestPacks(_, _, _, _, _)
ScanFewestPacks(dp, items, limit, bestItems, bestPacks) ==
    IF items > limit THEN [bestItems |-> bestItems, bestPacks |-> bestPacks]
    ELSE IF dp[items] # MaxInt32 /\ dp[items] < bestPacks
         THEN ScanFewestPacks(dp, items + 1, limit, items, dp[items])
         ELSE ScanFewestPacks(dp, items + 1, limit, bestItems, bestPacks)

\* faulty variant: keeps the last reachable total of the range
RECURSIVE ScanLargest(_, _, _, _, _)
ScanLargest(dp, items, limit, bestItems, bestPacks) ==
    IF items > limit THEN [bestItems |-> bestItems, bestPacks |-> bestPacks]
    ELSE IF dp[items] # MaxInt32
         THEN ScanLargest(dp, items + 1, limit, items, dp[items])
         ELSE ScanLargest(dp, items + 1, limit, bestItems, bestPacks)

\* lines 71-93: the selection scan from items up to limit
RECURSIVE Scan(_, _, _, _, _)
Scan(dp, items, limit, bestItems, bestPacks) ==
    IF items > limit THEN [bestItems |-> bestItems, bestPacks |-> bestPacks]
    ELSE IF dp[items] # MaxInt32
         THEN IF bestItems = -1
              THEN Scan(dp, items + 1, limit, items, dp[items])
              ELSE IF items < bestItems
              THEN Scan(dp, items + 1, limit, items, dp[items])
              ELSE IF items = bestItems /\ dp[items] < bestPacks
              THEN Scan(dp, items + 1, limit, bestItems, dp[items])
              ELSE IF items > bestItems
              THEN [bestItems |-> bestItems, bestPacks |-> bestPacks]
              ELSE Scan(dp, items + 1, limit, bestItems, bestPacks)
         ELSE Scan(dp, items + 1, limit, bestItems, bestPacks)

\* lines 101-107: the backtracking loop; path is the sizes read at line 104,
\* in the order read, and current the remainder the loop ended at
RECURSIVE Backtrack(_, _, _, _)
Backtrack(parent, current, packCounts, n) ==
    IF current <= 0
    THEN [outcome |-> "returned", packCounts |-> packCounts, steps |-> n,
          current |-> current, path |-> << >>]
    ELSE IF current \notin DOMAIN parent
    THEN [outcome |-> "panic", packCounts |-> packCounts, steps |-> n,
          current |-> current, path |-> << >>]
    ELSE LET size == parent[current]
         IN  IF size = 0
             THEN [outcome |-> "loop", packCounts |-> packCounts, steps |-> n,
                   current |-> current, path |-> << >>]
             ELSE [Backtrack(parent, current - size,
                             MapIncr(packCounts, size), n + 1)
                   EXCEPT !.path = <<size>> \o @]

\* what a run of Calculate leaves behind besides its result: the inner steps
\* of the fill loop, the steps of the backtracking loop, maxSize, the two
\* tables, the sizes the backtracking loop read and the remainder it ended at
MkRun(fill, back, maxSize, t, path, stop) ==
    [fill |-> fill, back |-> back, maxSize |-> maxSize, dp |-> t.dp,
     parent |-> t.parent, path |-> path, stop |-> stop]

NoTables == [dp |-> << >>, parent |-> << >>]

NoRun == MkRun(0, 0, 0, NoTables, << >>, -1)

\* the whole run of Calculate with its intermediate values
CalcRun(o, ps) ==
    IF Degenerate(o, ps)
    THEN [res |-> EmptyResult, run |-> NoRun]
    ELSE IF Len(ps) = 0
    THEN [res |-> Abnormal("panic"), run |-> NoRun]
    ELSE
    LET sizes   == SortInts(ps)
        maxSize == sizes[Len(sizes)]
        limit   == Limit(o, maxSize)
    IN  IF limit < 0
        THEN [res |-> Abnormal("panic"),
              run |-> MkRun(0, 0, maxSize, NoTables, << >>, -1)]
        ELSE
        LET t    == FillTable(InitTables(limit), 1, limit, sizes)
            best == Scan(t.dp, o, limit, -1, MaxInt32)
            bt   == Backtrack(t.parent, best.bestItems, EmptyMap, 0)
        IN  IF t.panic
            THEN [res |-> Abnormal("panic"),
                  run |-> MkRun(t.steps, 0, maxSize, t, << >>, -1)]
            ELSE IF best.bestItems = -1
            THEN [res |-> EmptyResult,
                  run |-> MkRun(t.steps, 0, maxSize, t, << >>, -1)]
            ELSE IF bt.outcome # "returned"
            THEN [res |-> Abnormal(bt.outcome),
                  run |-> MkRun(t.steps, bt.steps, maxSize, t, bt.path,
                                bt.current)]
            ELSE [res |-> MkResult(bt.packCounts, best.bestItems,
                                   best.bestPacks, best.bestItems - o),
                  run |-> MkRun(t.steps, bt.steps, maxSize, t, bt.path,
                                bt.current)]

Calculate(o, ps) == CalcRun(o, ps).res

(***************************************************************************)
(* Validate, optimizer.go lines 125-141.                                   *)
(***************************************************************************)
\* gcd, lines 144-149, on the non-negative arguments it is given here
RECURSIVE Gcd(_, _)
Gcd(a, b) == IF b = 0 THEN a ELSE Gcd(b, a % b)

\* CalculateGCD, lines 152-163: the fold of gcd over the list from position k
RECURSIVE GcdFrom(_, _, _)
GcdFrom(ps, k, acc) ==
    IF k > Len(ps) THEN acc ELSE GcdFrom(ps, k + 1, Gcd(acc, ps[k]))

CalculateGCD(ps) == IF Len(ps) = 0 THEN 0 ELSE GcdFrom(ps, 2, ps[1])

\* faulty variant: also rejects sizes whose GCD is above 1 (the check the
\* comment of lines 137-139 leaves out)
ValidateCoprime(ps) ==
    IF Len(ps) = 0 THEN FALSE
    ELSE IF \E i \in 1..Len(ps) : ps[i] <= 0 THEN FALSE
    ELSE CalculateGCD(ps) = 1

Validate(ps) ==
    IF Len(ps) = 0 THEN FALSE
    ELSE \A i \in 1..Len(ps) : ~(ps[i] <= 0)


(***************************************************************************)
(* The cache, internal/cache/cache.go.  Durations are counted in minutes.  *)
(***************************************************************************)
InitialTTL == 5
MaxTTL == 1440

CacheKeyPrefix == "packcalc:"

\* a store key: its text split into the prefix KEYS matches on and the rest
StatsHitsKey == [prefix |-> CacheKeyPrefix, rest |-> "stats:hits"]
StatsMissesKey == [prefix |-> CacheKeyPrefix, rest |-> "stats:misses"]

\* fmt's %v of an []int: "[3 5]"
RECURSIVE JoinInts(_)
JoinInts(s) ==
    IF s = << >> THEN ""
    ELSE IF Len(s) = 1 THEN ToString(s[1])
    ELSE ToString(s[1]) \o " " \o JoinInts(Tail(s))

FormatInts(s) == "[" \o JoinInts(s) \o "]"

\* sha256.Sum256 truncated to 16 bytes and printed with %x, taken as
\* injective on its input
Digest(data) == data

\* faulty variant: the quantity is left out of the key
GenerateKeySizesOnly(items, ps) ==
    [prefix |-> CacheKeyPrefix, rest |-> Digest(FormatInts(SortInts(ps)))]

\* faulty variant: the sizes are not sorted before they are printed
GenerateKeyUnsorted(items, ps) ==
    [prefix |-> CacheKeyPrefix,
     rest |-> Digest(ToString(items) \o ":" \o FormatInts(ps))]

\* generateKey, lines 113-125
GenerateKey(items, ps) ==
    LET sorted == SortInts(ps)
        data   == ToString(items) \o ":" \o FormatInts(sorted)
    IN  [prefix |-> CacheKeyPrefix, rest |-> Digest(data)]

(***************************************************************************)
(* encoding/json on CachedResult.  A map[int]int is written as an object   *)
(* whose member names are the keys in decimal; reading it parses them.     *)
(* CalculationTimeMs and CachedAt carry wall-clock data and are left out.  *)
(***************************************************************************)
MkCached(items, ps, res, ti, tp, w, hits, ttl) ==
    [Items |-> items, PackSizes |-> ps, Result |-> res, TotalItems |-> ti,
     TotalPacks |-> tp, Waste |-> w, HitCount |-> hits, CurrentTTL |-> ttl]

\* strconv on the member names: the decimal text of an int and back
Decimal == [n \in (-MaxNeg)..(MaxOrder + MaxPackSize) |-> ToString(n)]
ParseInt(str) == CHOOSE n \in DOMAIN Decimal : Decimal[n] = str

Marshal(e) ==
    [items |-> e.Items, pack_sizes |-> e.PackSizes,
     result |-> {<<Decimal[k], e.Result[k]>> : k \in DOMAIN e.Result},
     total_items |-> e.TotalItems, total_packs |-> e.TotalPacks,
     waste |-> e.Waste, hit_count |-> e.HitCount,
     current_ttl |-> e.CurrentTTL]

Unmarshal(j) ==
    [Items |-> j.items, PackSizes |-> j.pack_sizes,
     Result |-> [k \in {ParseInt(m[1]) : m \in j.result} |->
                    (CHOOSE m \in j.result : ParseInt(m[1]) = k)[2]],
     TotalItems |-> j.total_items, TotalPacks |-> j.total_packs,
     Waste |-> j.waste, HitCount |-> j.hit_count,
     CurrentTTL |-> j.current_ttl]

(***************************************************************************)
(* The store: a function from the keys present to [val, ttl]; ttl = 0 is a *)
(* key without expiry.                                                     *)
(***************************************************************************)
EmptyStore == [k \in {} |-> 0]

RSet(r, key, val, ttl) ==
    [k \in DOMAIN r \cup {key} |->
        IF k = key THEN [val |-> val, ttl |-> ttl] ELSE r[k]]

\* faulty variant: the counter moves by two
RIncrTwice(r, key) ==
    IF key \in DOMAIN r
    THEN [r EXCEPT ![key].val = @ + 2]
    ELSE RSet(r, key, 2, 0)

RIncr(r, key) ==
    IF key \in DOMAIN r
    THEN [r EXCEPT ![key].val = @ + 1]
    ELSE RSet(r, key, 1, 0)

RDel(r, keys) == [k \in DOMAIN r \ keys |-> r[k]]

RKeys(r, prefix) == {k \in DOMAIN r : k.prefix = prefix}

\* the keys of the store that hold cached entries
EntryKeys(r) == RKeys(r, CacheKeyPrefix) \ {StatsHitsKey, StatsMissesKey}

\* Get(...).Int64() with its error dropped, lines 217-218
RInt(r, key) == IF key \in DOMAIN r THEN r[key].val ELSE 0

\* the failures a call of Get, Set or Clear can meet, one flag per store call
Failures == [read : BOOLEAN, write : BOOLEAN, incr : BOOLEAN]
NoFailure == [read |-> FALSE, write |-> FALSE, incr |-> FALSE]

\* incrementHits / incrementMisses, lines 288-295: the reply is dropped
IncrementOp(r, key, fails) == IF fails THEN r ELSE RIncr(r, key)

\* faulty variant: the error of the store is not passed on
SetOpSwallow(r, key, e, ttl, fails) ==
    IF fails THEN [redis |-> r, err |-> FALSE]
    ELSE [redis |-> RSet(r, key, Marshal(e), ttl), err |-> FALSE]

\* faulty variant: a write reported as failed has reached the store
SetOpLands(r, key, e, ttl, fails) ==
    [redis |-> RSet(r, key, Marshal(e), ttl), err |-> fails]

\* set, lines 197-208
SetOp(r, key, e, ttl, fails) ==
    IF fails THEN [redis |-> r, err |-> TRUE]
    ELSE [redis |-> RSet(r, key, Marshal(e), ttl), err |-> FALSE]

\* faulty variant: the TTL grows without the cap of lines 158-160
NextTTLNoCap(ttl) == ttl * 2

\* faulty variant: the TTL is left as it was
NextTTLSame(ttl) == ttl

\* lines 157-160
NextTTL(ttl) ==
    LET newTTL == ttl * 2 IN IF newTTL > MaxTTL THEN MaxTTL ELSE newTTL

\* faulty variant: the decomposition is not carried over
TouchBlank(stored) ==
    [stored EXCEPT !.HitCount = @ + 1, !.CurrentTTL = NextTTL(@),
                   !.Result = EmptyMap]

\* faulty variant: the hit is not counted in the entry
TouchNoCount(stored) == [stored EXCEPT !.CurrentTTL = NextTTL(@)]

\* lines 155-161 of Get: the entry read, with one more hit and the next TTL
Touch(stored) ==
    [stored EXCEPT !.HitCount = @ + 1, !.CurrentTTL = NextTTL(@)]

\* Get, lines 128-170.  ret is << >> for nil and <<entry>> otherwise.
GetOp(en, r, items, ps, f) ==
    IF ~en THEN [redis |-> r, found |-> FALSE, ret |-> << >>]
    ELSE
    LET key == GenerateKey(items, ps)
    IN  IF f.read \/ key \notin DOMAIN r
        THEN [redis |-> IncrementOp(r, StatsMissesKey, f.incr),
              found |-> FALSE, ret |-> << >>]
        ELSE
        LET stored == Unmarshal(r[key].val)
            newTTL == NextTTL(stored.CurrentTTL)
            hit    == [stored EXCEPT !.HitCount = @ + 1, !.CurrentTTL = newTTL]
            saved  == SetOp(r, key, hit, newTTL, f.write)
        IN  [redis |-> IncrementOp(saved.redis, StatsHitsKey, f.incr),
             found |-> TRUE, ret |-> <<hit>>]

\* faulty variant: a key that holds an entry keeps it
CacheSetOpIfAbsent(en, r, items, ps, res, ti, tp, w, f) ==
    IF ~en THEN [redis |-> r, err |-> FALSE]
    ELSE LET key    == GenerateKey(items, ps)
             cached == MkCached(items, ps, res, ti, tp, w, 0, InitialTTL)
         IN  IF key \in DOMAIN r THEN [redis |-> r, err |-> FALSE]
             ELSE SetOp(r, key, cached, InitialTTL, f.write)

\* faulty variant: the enabled flag is not looked at
CacheSetOpAlways(en, r, items, ps, res, ti, tp, w, f) ==
    LET key    == GenerateKey(items, ps)
        cached == MkCached(items, ps, res, ti, tp, w, 0, InitialTTL)
    IN  SetOp(r, key, cached, InitialTTL, f.write)

\* Set, lines 173-194
CacheSetOp(en, r, items, ps, res, ti, tp, w, f) ==
    IF ~en THEN [redis |-> r, err |-> FALSE]
    ELSE LET key    == GenerateKey(items, ps)
             cached == MkCached(items, ps, res, ti, tp, w, 0, InitialTTL)
         IN  SetOp(r, key, cached, InitialTTL, f.write)

\* faulty variant: every key of the store is deleted
ClearOpFlush(en, r, f) ==
    IF ~en THEN [redis |-> r, err |-> FALSE]
    ELSE IF f.read THEN [redis |-> r, err |-> TRUE]
    ELSE [redis |-> EmptyStore, err |-> FALSE]

\* faulty variant: only the entries are deleted, the counters are kept
ClearOpKeepStats(en, r, f) ==
    IF ~en THEN [redis |-> r, err |-> FALSE]
    ELSE IF f.read THEN [redis |-> r, err |-> TRUE]
    ELSE LET keys == EntryKeys(r)
         IN  IF keys # {} /\ f.write THEN [redis |-> r, err |-> TRUE]
             ELSE [redis |-> RDel(r, keys), err |-> FALSE]

\* Clear, lines 257-277: f.read fails KEYS, f.write the first DEL, f.incr the
\* second
ClearOp(en, r, f) ==
    IF ~en THEN [redis |-> r, err |-> FALSE]
    ELSE IF f.read THEN [redis |-> r, err |-> TRUE]
    ELSE LET keys == RKeys(r, CacheKeyPrefix)
         IN  IF keys # {} /\ f.write THEN [redis |-> r, err |-> TRUE]
             ELSE LET r1 == RDel(r, keys)
                  IN  [redis |-> IF f.incr THEN r1
                                 ELSE RDel(r1, {StatsHitsKey, StatsMissesKey}),
                       err |-> FALSE]

\* float64(hits) / float64(total) * 100, line 223, as the fraction it rounds
Percent(hits, total) == [num |-> hits * 100, den |-> total]

\* hitRate := 0.0, line 221
ZeroRate == [num |-> 0, den |-> 1]

\* GetStats, lines 211-254: f.read fails the read of the hit counter, f.write
\* the read of the miss counter, f.incr KEYS; every error is dropped or
\* logged.  MemoryUsed and Uptime, read from INFO, are left out.
GetStatsOp(en, r, f) ==
    IF ~en
    THEN [Hits |-> 0, Misses |-> 0, HitRate |-> ZeroRate, TotalKeys |-> 0]
    ELSE LET hits   == IF f.read THEN 0 ELSE RInt(r, StatsHitsKey)
             misses == IF f.write THEN 0 ELSE RInt(r, StatsMissesKey)
             total  == hits + misses
             keys   == IF f.incr THEN {} ELSE RKeys(r, CacheKeyPrefix)
         IN  [Hits |-> hits, Misses |-> misses,
              HitRate |-> IF total > 0 THEN Percent(hits, total) ELSE ZeroRate,
              TotalKeys |-> Cardinality(keys)]

NoLast ==
    [op |-> "none", key |-> StatsHitsKey, found |-> FALSE, ret |-> << >>,
     prev |-> << >>, readFailed |-> FALSE, writeFailed |-> FALSE,
     incrFailed |-> FALSE, err |-> FALSE, gets |-> 0, clean |-> FALSE]

\* tally (not part of the program): the Gets that returned found = true and
\* found = false since the last Clear that succeeded, and whether every store
\* call since then succeeded; the counts are dropped once one has failed
NoTally == [hits |-> 0, misses |-> 0, clean |-> TRUE]
Dirty == [hits |-> 0, misses |-> 0, clean |-> FALSE]

NoReq == [Items |-> 0, PackSizes |-> << >>, sizes |-> << >>]
NoResp == [status |-> 0]

CacheIdle ==
    /\ enabled = FALSE
    /\ redis = EmptyStore
    /\ last = NoLast
    /\ chain = EmptyStore
    /\ tally = NoTally
    /\ dbSizes = << >>
    /\ req = NoReq
    /\ resp = NoResp
    /\ keyIn = << >>
    /\ keyOut = << >>
    /\ pend = << >>
    /\ puts = << >>
    /\ cleared = {}

(***************************************************************************)
(* Reference definitions for the properties: the decompositions of n over  *)
(* a set S of positive sizes, enumerated directly.                         *)
(***************************************************************************)
RECURSIVE SumOver(_, _)
SumOver(f, S) ==
    IF S = {} THEN 0
    ELSE LET x == CHOOSE y \in S : TRUE IN f[x] + SumOver(f, S \ {x})

ItemsOf(c) == SumOver([s \in DOMAIN c |-> s * c[s]], DOMAIN c)
PacksOf(c) == SumOver(c, DOMAIN c)

\* every count function over S (counts >= 0) whose items sum to exactly n
RECURSIVE Decompositions(_, _)
Decompositions(S, n) ==
    IF S = {} THEN (IF n = 0 THEN {EmptyMap} ELSE {})
    ELSE LET s == CHOOSE y \in S : TRUE
         IN  UNION { { [x \in DOMAIN c \cup {s} |-> IF x = s THEN k ELSE c[x]] :
                         c \in Decompositions(S \ {s}, n - k * s) } :
                     k \in 0..(n \div s) }

IsSum(S, n) == Decompositions(S, n) # {}

SetMin(T) == CHOOSE m \in T : \A x \in T : m <= x

SizeSet == {packSizes[i] : i \in 1..Len(packSizes)}

ValidInput ==
    /\ order > 0
    /\ Len(packSizes) > 0
    /\ \A i \in 1..Len(packSizes) : packSizes[i] > 0

Done == pc = "done"

\* C1: for order > 0 and non-empty positive pack sizes, TotalItems is the
\* smallest n >= order that is a sum of pack sizes; no n' with
\* order <= n' < TotalItems is such a sum.
C1_MinimumItems ==
    (Done /\ ValidInput) =>
        /\ result.outcome = "returned"
        /\ result.TotalItems >= order
        /\ IsSum(SizeSet, result.TotalItems)
        /\ \A n \in order..(result.TotalItems - 1) : ~IsSum(SizeSet, n)

\* order 4 with {3,5} overfills to 5; order 10 with {3,5} gives exactly 10
C1_Witness ==
    /\ Done
    /\ order = 4
    /\ packSizes = <<3, 5>>
    /\ result.TotalItems = 5
    /\ result.PackCounts = [s \in {5} |-> 1]

\* C2: for order > 0 and non-empty positive pack sizes, TotalPacks is the
\* minimum number of packs over all multisets of pack sizes that sum to
\* exactly the returned TotalItems.
C2_MinimumPacks ==
    (Done /\ ValidInput) =>
        /\ result.outcome = "returned"
        /\ IsSum(SizeSet, result.TotalItems)
        /\ result.TotalPacks =
              SetMin({PacksOf(c) : c \in Decompositions(SizeSet, result.TotalItems)})

\* order 6 with {1,2,3}: two packs of 3, although {1:6} and {2:3} also fit
C2_Witness ==
    /\ Done
    /\ order = 6
    /\ packSizes = <<1, 2, 3>>
    /\ result.TotalPacks = 2
    /\ result.PackCounts = [s \in {3} |-> 2]

\* C3: for order > 0 and non-empty positive pack sizes, Calculate returns a
\* non-empty decomposition with TotalItems >= order and
\* Waste = TotalItems - order >= 0 (the no-solution branch is not taken).
C3_Feasible ==
    (Done /\ ValidInput) =>
        /\ result.outcome = "returned"
        /\ DOMAIN result.PackCounts # {}
        /\ result.TotalItems >= order
        /\ result.Waste = result.TotalItems - order
        /\ result.Waste >= 0
        /\ result # EmptyResult

\* a prime-sized set with an order no exact sum meets: 7 with {3,5} ships 8
C3_Witness ==
    /\ Done
    /\ order = 7
    /\ packSizes = <<5, 3>>
    /\ result.TotalItems = 8
    /\ result.Waste = 1

\* C4: for every result Calculate returns, the sizes times counts of
\* PackCounts sum to TotalItems, the counts sum to TotalPacks, every key is
\* one of the given pack sizes and every count is at least 1.
C4_SumConsistency ==
    (Done /\ result.outcome = "returned") =>
        /\ ItemsOf(result.PackCounts) = result.TotalItems
        /\ PacksOf(result.PackCounts) = result.TotalPacks
        /\ DOMAIN result.PackCounts \subseteq SizeSet
        /\ \A s \in DOMAIN result.PackCounts : result.PackCounts[s] >= 1

\* a result with two different sizes and a repeated one: 10 with {3,4} is 3+3+4
C4_Witness ==
    /\ Done
    /\ order = 10
    /\ packSizes = <<3, 4>>
    /\ result.PackCounts = [s \in {3, 4} |-> IF s = 3 THEN 2 ELSE 1]
    /\ result.TotalPacks = 3

\* C5: with order <= 0 (any packSizes) or empty packSizes (any order),
\* Calculate returns the empty decomposition: no PackCounts entries and
\* TotalItems = TotalPacks = Waste = 0.
C5_DegenerateEmpty ==
    (Done /\ (order <= 0 \/ Len(packSizes) = 0)) =>
        /\ result.outcome = "returned"
        /\ DOMAIN result.PackCounts = {}
        /\ result.TotalItems = 0
        /\ result.TotalPacks = 0
        /\ result.Waste = 0

C5_Witness ==
    /\ Done
    /\ order = 5
    /\ packSizes = << >>
    /\ result = EmptyResult

\* C6: for order > 0 and a non-empty packSizes with a member <= 0,
\* Calculate completes normally and returns the empty decomposition.
C6_InvalidSizesEmpty ==
    (Done /\ order > 0 /\ Len(packSizes) > 0
          /\ \E i \in 1..Len(packSizes) : packSizes[i] <= 0) =>
        result = EmptyResult

(***************************************************************************)
(* Inputs.                                                                 *)
(***************************************************************************)
Orders == -1..MaxOrder
SizeValues == (-MaxNeg)..MaxPackSize
SizeLists == UNION {[1..n -> SizeValues] : n \in 0..MaxLen}

NoWin == [dp |-> << >>, counts |-> << >>, steps |-> 0]
NoBest == [bestItems |-> -1, bestPacks |-> MaxInt32, counts |-> EmptyMap]

InitCalc ==
    /\ order \in Orders
    /\ packSizes \in SizeLists
    /\ result = NoResult
    /\ run = NoRun
    /\ first = NoFirst
    /\ valid = FALSE
    /\ pc = "call"
    /\ iFill = 0
    /\ chunk = 0
    /\ win = NoWin
    /\ sel = NoBest
    /\ CacheIdle

CallValidate ==
    /\ pc = "call"
    /\ valid' = Validate(packSizes)
    /\ pc' = "validated"
    /\ UNCHANGED <<order, packSizes, result, run, first, streamVars, cacheVars, httpVars,
                   auxVars>>

CallCalculate ==
    /\ pc = "validated"
    /\ \E done \in {CalcRun(order, packSizes)} :
          /\ result' = done.res
          /\ run' = done.run
    /\ pc' = "done"
    /\ UNCHANGED <<order, packSizes, first, valid, streamVars, cacheVars, httpVars,
                   auxVars>>

NextCalc == CallValidate \/ CallCalculate

SpecCalc == InitCalc /\ [][NextCalc]_vars

(***************************************************************************)
(* Calculate on a large input, a run of iterations of the fill loop per    *)
(* step.  Line 59 reads dp[i - size] only for 1 <= size <= maxSize, so of  *)
(* the tables only the entries max(0, i - maxSize) .. i - 1 are needed:    *)
(* win.dp holds them, and each step drops the older ones.  The             *)
(* backtracking loop of lines 103-107 started at n collects parent[n] and  *)
(* then what it collects from n - parent[n]; parent[n] is final once       *)
(* iteration n ends, so these counts are carried with each entry           *)
(* (win.counts) instead of being walked back through a full table.  The    *)
(* scan of lines 74-93 is applied to the entries of a step as soon as they *)
(* are filled.  StreamAgrees compares the outcome with Calculate.          *)
(***************************************************************************)
BigOrder == 500000
BigSizes == <<23, 31, 53>>
ChunkLen == 40      \* iterations of the fill loop per step on the big input

StreamInputs ==
    {<<BigOrder, BigSizes, ChunkLen>>}
      \cup {<<o, ps, c>> \in (1..MaxOrder) \X SizeLists \X {1, 2} :
               Len(ps) > 0 /\ \A k \in 1..Len(ps) : ps[k] > 0}

InitStream ==
    /\ \E in \in StreamInputs :
          order = in[1] /\ packSizes = in[2] /\ chunk = in[3]
    /\ result = NoResult
    /\ run = NoRun
    /\ first = NoFirst
    /\ valid = TRUE
    /\ pc = "fill"
    /\ iFill = 1
    /\ win = [dp |-> InitTables(0).dp, counts |-> [k \in {0} |-> EmptyMap],
              steps |-> 0]
    /\ sel = NoBest
    /\ CacheIdle

StreamLimit ==
    LET sizes == SortInts(packSizes) IN Limit(order, sizes[Len(sizes)])

Max2(a, b) == IF a > b THEN a ELSE b
Min2(a, b) == IF a < b THEN a ELSE b

\* what the backtracking loop collects from each of the entries k .. hi
RECURSIVE Collect(_, _, _, _)
Collect(counts, parent, k, hi) ==
    IF k > hi THEN counts
    ELSE LET size == parent[k]
             cnt  == IF size = 0 THEN EmptyMap
                     ELSE MapIncr(counts[k - size], size)
         IN  Collect(counts @@ (k :> cnt), parent, k + 1, hi)

\* lines 57-66 for i = iFill .. hi, then lines 74-93 for the same entries
FillChunk ==
    /\ pc = "fill"
    /\ iFill <= StreamLimit
    /\ LET sizes == SortInts(packSizes)
           W     == sizes[Len(sizes)]
           hi    == Min2(iFill + chunk - 1, StreamLimit)
           lo    == Max2(iFill - W, 0)
           t0    == [dp     |-> [k \in lo..hi |-> IF k >= iFill THEN MaxInt32
                                                  ELSE win.dp[k]],
                     parent |-> [k \in iFill..hi |-> 0],
                     panic  |-> FALSE,
                     steps  |-> win.steps]
           t1    == FillTable(t0, iFill, hi, sizes)
           c0    == [k \in lo..(iFill - 1) |-> win.counts[k]]
           cnts  == Collect(c0, t1.parent, iFill, hi)
           b     == IF hi >= order
                    THEN Scan(t1.dp, Max2(iFill, order), hi,
                              sel.bestItems, sel.bestPacks)
                    ELSE [bestItems |-> sel.bestItems,
                          bestPacks |-> sel.bestPacks]
       IN  /\ win' = [dp |-> t1.dp, counts |-> cnts, steps |-> t1.steps]
           /\ sel' = [bestItems |-> b.bestItems, bestPacks |-> b.bestPacks,
                      counts |-> IF b.bestItems >= iFill
                                 THEN cnts[b.bestItems] ELSE sel.counts]
           /\ iFill' = hi + 1
    /\ UNCHANGED <<order, packSizes, result, run, first, valid, pc, chunk, cacheVars,
                   httpVars, auxVars>>

\* lines 96-114
FinishStream ==
    /\ pc = "fill"
    /\ iFill > StreamLimit
    /\ result' = IF sel.bestItems = -1 THEN EmptyResult
                 ELSE MkResult(sel.counts, sel.bestItems, sel.bestPacks,
                               sel.bestItems - order)
    /\ pc' = "done"
    /\ UNCHANGED <<order, packSizes, run, first, valid, iFill, win, sel, chunk, cacheVars,
                   httpVars, auxVars>>

NextStream == FillChunk \/ FinishStream

SpecStream == InitStream /\ [][NextStream]_vars

\* the step-wise run returns what Calculate returns
StreamAgrees ==
    (Done /\ order <= MaxOrder) => result = Calculate(order, packSizes)

\* C7: Calculate(500000, {23, 31, 53}) returns exactly
\* PackCounts = {23:2, 31:7, 53:9429}, TotalItems = 500000,
\* TotalPacks = 9438 and Waste = 0.
C7_GivenScenario ==
    (Done /\ order = BigOrder /\ packSizes = BigSizes) =>
        /\ result.outcome = "returned"
        /\ result.PackCounts =
              [s \in {23, 31, 53} |-> CASE s = 23 -> 2 [] s = 31 -> 7
                                        [] s = 53 -> 9429]
        /\ result.TotalItems = 500000
        /\ result.TotalPacks = 9438
        /\ result.Waste = 0

C7_Witness ==
    /\ Done
    /\ order = BigOrder
    /\ packSizes = BigSizes
    /\ result.TotalItems = 500000
    /\ iFill = BigOrder + 53 + 1
    /\ win.steps = (BigOrder + 53) * 3

(***************************************************************************)
(* SpecCache: Get, Set, Clear called one after another, directly, as the   *)
(* cache tests do (TestCache_SetAndGet, TestCache_AdaptiveTTL, ...), with  *)
(* the store expiring keys and failing calls at will.                      *)
(***************************************************************************)
\* Two explorations, chosen by pc at the start: "deep" follows one key
\* through MaxHits hits (TestCache_MaxTTL), "wide" follows two keys, the
\* second one reached through two orders of the same sizes, through
\* MaxHitsWide hits each.
DeepArgs == {<<2, <<2, 3>>>>}
WideArgs == {<<2, <<2, 3>>>>, <<5, <<2, 3>>>>, <<5, <<3, 2>>>>}
CacheArgs == IF pc = "deep" THEN DeepArgs ELSE WideArgs
HitBound == IF pc = "deep" THEN MaxHits ELSE MaxHitsWide

\* the decompositions handed to Set
SetChoices ==
    { [res |-> [k \in {2, 3} |-> 1], ti |-> 5, tp |-> 2, w |-> 0] }

\* the store is shared: it may hold a key of another user of it
ForeignKey == [prefix |-> "session:", rest |-> "42"]
ForeignStore == RSet(EmptyStore, ForeignKey, "other", 0)

\* the stored entry under key, decoded, as << >> or <<entry>>
StoredAt(r, key) ==
    IF key \in DOMAIN r THEN <<Unmarshal(r[key].val)>> ELSE << >>

InitCache ==
    /\ order = 0
    /\ packSizes = << >>
    /\ result = NoResult
    /\ run = NoRun
    /\ first = NoFirst
    /\ valid = FALSE
    /\ pc \in {"deep", "wide"}
    /\ iFill = 0
    /\ win = NoWin
    /\ chunk = 0
    /\ sel = NoBest
    /\ enabled \in BOOLEAN
    /\ redis \in {EmptyStore, ForeignStore}
    /\ last = NoLast
    /\ chain = EmptyStore
    /\ tally = NoTally
    /\ dbSizes = << >>
    /\ req = NoReq
    /\ resp = NoResp
    /\ keyIn = << >>
    /\ keyOut = << >>
    /\ pend = << >>
    /\ puts = << >>
    /\ cleared = {}

idleVars == <<order, packSizes, result, run, first, valid, pc, iFill, win, chunk,
              sel, keyIn, keyOut, pend, puts, cleared>>

\* Of the failure flags only those of store calls the operation makes are
\* chosen; the flag of a call it does not make is FALSE.
GetFailureCase(en, present, f) ==
    /\ ~en => f = NoFailure
    /\ (~present \/ f.read) => ~f.write

ClearFailureCase(en, anyKeys, f) ==
    /\ ~en => f = NoFailure
    /\ f.read => ~f.write /\ ~f.incr
    /\ ~anyKeys => ~f.write
    /\ f.write => ~f.incr

\* chain (not part of the program) counts, per key, the Gets since the Set
\* that stored its entry, and whether every store read and write of that Set
\* and of those Gets succeeded.  A chain is followed for one more Get after a
\* store call of it has failed, and then dropped.
CacheGet(items, ps, f) ==
    /\ pc \in {"deep", "wide"}
    /\ \E out \in {GetOp(enabled, redis, items, ps, f)},
          key \in {GenerateKey(items, ps)} :
       LET prev    == StoredAt(redis, key)
           tracked == key \in DOMAIN chain
           n       == IF tracked THEN chain[key].gets + 1 ELSE 0
           rdFail  == enabled /\ f.read
           wrFail  == out.found /\ f.write
           ok      == tracked /\ chain[key].clean /\ ~rdFail /\ ~wrFail
       IN  /\ GetFailureCase(enabled, prev # << >>, f)
           /\ n <= HitBound + 1
           /\ prev # << >> => prev[1].HitCount < HitBound
           /\ out.found => RInt(redis, StatsHitsKey) <= HitBound
           /\ ~out.found => RInt(redis, StatsMissesKey) < MaxMisses
           /\ redis' = out.redis
           /\ chain' = IF tracked /\ chain[key].clean
                       THEN [chain EXCEPT ![key] = [gets |-> n, clean |-> ok]]
                       ELSE RDel(chain, {key})
           /\ last' = [op |-> "Get", key |-> key, found |-> out.found,
                       ret |-> out.ret, prev |-> prev, readFailed |-> rdFail,
                       writeFailed |-> wrFail,
                       incrFailed |-> enabled /\ f.incr, err |-> FALSE,
                       gets |-> n, clean |-> ok]
           /\ tally' = IF ~enabled THEN tally
                       ELSE IF ~tally.clean \/ rdFail \/ wrFail \/ f.incr
                       THEN Dirty
                       ELSE IF out.found
                       THEN [tally EXCEPT !.hits = @ + 1]
                       ELSE [tally EXCEPT !.misses = @ + 1]
    /\ UNCHANGED <<idleVars, enabled, httpVars>>

CacheSet(items, ps, c, f) ==
    /\ pc \in {"deep", "wide"}
    /\ ~f.read /\ ~f.incr /\ (~enabled => ~f.write)
    /\ \E out \in {CacheSetOp(enabled, redis, items, ps, c.res, c.ti, c.tp,
                               c.w, f)},
          key \in {GenerateKey(items, ps)} :
           /\ redis' = out.redis
           /\ chain' = [k \in DOMAIN chain \cup {key} |->
                           IF k = key
                           THEN [gets |-> 0, clean |-> enabled /\ ~out.err]
                           ELSE chain[k]]
           /\ last' = [NoLast EXCEPT !.op = "Set", !.key = key,
                                     !.prev = StoredAt(redis, key),
                                     !.writeFailed = f.write,
                                     !.err = out.err,
                                     !.clean = enabled /\ ~out.err]
    /\ tally' = IF enabled /\ f.write THEN Dirty ELSE tally
    /\ UNCHANGED <<idleVars, enabled, httpVars>>

CacheClear(f) ==
    /\ pc \in {"deep", "wide"}
    /\ LET out == ClearOp(enabled, redis, f)
       IN  /\ ClearFailureCase(enabled, RKeys(redis, CacheKeyPrefix) # {}, f)
           /\ redis' = out.redis
           /\ chain' = EmptyStore
           /\ last' = [NoLast EXCEPT !.op = "Clear", !.err = out.err,
                                     !.found = EntryKeys(redis) # {}]
           /\ tally' = IF ~enabled THEN tally
                       ELSE IF f = NoFailure THEN NoTally ELSE Dirty
    /\ UNCHANGED <<idleVars, enabled, httpVars>>

CacheGetStats(f) ==
    /\ pc \in {"deep", "wide"}
    /\ ~enabled => f = NoFailure
    /\ last' = [NoLast EXCEPT !.op = "GetStats",
                              !.ret = <<GetStatsOp(enabled, redis, f)>>,
                              !.readFailed = f.read,
                              !.writeFailed = f.write,
                              !.incrFailed = f.incr]
    /\ UNCHANGED <<idleVars, enabled, redis, chain, tally, httpVars>>

\* the store drops a key whose TTL has run out
Expire(key) ==
    /\ pc \in {"deep", "wide", "http"}
    /\ key \in DOMAIN redis
    /\ redis[key].ttl > 0
    /\ redis' = RDel(redis, {key})
    /\ chain' = RDel(chain, {key})
    /\ last' = [NoLast EXCEPT !.op = "Expire", !.key = key]
    /\ UNCHANGED <<idleVars, enabled, tally, httpVars>>

NextCache ==
    \/ \E a \in CacheArgs, f \in Failures : CacheGet(a[1], a[2], f)
    \/ \E a \in CacheArgs, c \in SetChoices, f \in Failures :
          CacheSet(a[1], a[2], c, f)
    \/ \E f \in Failures : CacheClear(f)
    \/ \E f \in Failures : CacheGetStats(f)
    \/ \E key \in DOMAIN redis : Expire(key)

SpecCache == InitCache /\ [][NextCache]_vars

\* the entry a hit on old is to produce
HitOn(old) ==
    [old EXCEPT !.HitCount = @ + 1,
                !.CurrentTTL = Min2(2 * old.CurrentTTL, MaxTTL)]

\* the entry and the expiry the store holds under key, as << >> or
\* <<entry, ttl>>
Held(r, key) ==
    IF key \in DOMAIN r THEN <<Unmarshal(r[key].val), r[key].ttl>> ELSE << >>

\* the last step was a Get on an enabled cache whose read found an entry
GetFound == last.op = "Get" /\ enabled /\ last.prev # << >> /\ ~last.readFailed

\* C9 as stated: on an enabled cache a Get that finds a stored entry
\* increments HitCount by one, sets CurrentTTL to min(2 * previous, MaxTTL),
\* writes the updated entry back under the same key with the new TTL as its
\* expiry, and returns the updated entry with found = true.
C9_GetHitOriginal ==
    GetFound =>
        LET new == HitOn(last.prev[1])
        IN  /\ last.found
            /\ last.ret = <<new>>
            /\ Held(redis, last.key) = <<new, new.CurrentTTL>>

\* C9 amended: the Get returns the updated entry (HitCount + 1, CurrentTTL
\* min(2 * previous, MaxTTL)) with found = true; the store holds the updated
\* entry with the new TTL as expiry when the write-back succeeded, and the
\* entry and expiry it held before when the write-back failed.
C9_GetHitWritten ==
    GetFound =>
        LET old == last.prev[1]
            new == HitOn(old)
        IN  /\ last.found
            /\ last.ret = <<new>>
            /\ ~last.writeFailed =>
                   Held(redis, last.key) = <<new, new.CurrentTTL>>
            /\ last.writeFailed =>
                   /\ Held(redis, last.key) # << >>
                   /\ Held(redis, last.key)[1] = old

\* a second hit on an entry, written back: 5 -> 10 -> 20 minutes
C9_Witness ==
    /\ GetFound
    /\ ~last.writeFailed
    /\ last.prev[1].HitCount = 1
    /\ last.prev[1].CurrentTTL = 2 * InitialTTL
    /\ last.ret # << >>
    /\ last.ret[1].HitCount = 2
    /\ Held(redis, last.key) = <<last.ret[1], 4 * InitialTTL>>

RECURSIVE Pow2(_)
Pow2(k) == IF k = 0 THEN 1 ELSE 2 * Pow2(k - 1)

\* no Get reports and no entry stores a CurrentTTL above MaxTTL, and a hit on
\* an entry at MaxTTL leaves it at MaxTTL
TTLCapped ==
    /\ \A key \in RKeys(redis, CacheKeyPrefix) \ {StatsHitsKey, StatsMissesKey} :
           /\ Held(redis, key)[1].CurrentTTL <= MaxTTL
           /\ Held(redis, key)[2] <= MaxTTL
    /\ (last.op = "Get" /\ last.ret # << >>) =>
           last.ret[1].CurrentTTL <= MaxTTL
    /\ (GetFound /\ last.prev[1].CurrentTTL = MaxTTL) =>
           /\ last.ret # << >>
           /\ last.ret[1].CurrentTTL = MaxTTL
           /\ Held(redis, last.key) # << >>
           /\ Held(redis, last.key)[1].CurrentTTL = MaxTTL

\* the last step was the k-th Get, k >= 1, of a key since the Set of it, with
\* no Set, Clear or expiry of the key in between
KthGet == last.op = "Get" /\ last.gets >= 1

SetDone == last.op = "Set" /\ enabled /\ ~last.writeFailed

\* C11: on an enabled cache with a reachable store, Set stores an entry with
\* HitCount = 0, CurrentTTL = InitialTTL and expiry InitialTTL carrying the
\* arguments of the call, whatever entry the key held before.
C11_SetFresh ==
    SetDone =>
        /\ Held(redis, last.key) # << >>
        /\ Held(redis, last.key)[2] = InitialTTL
        /\ \E a \in CacheArgs, c \in SetChoices :
              /\ GenerateKey(a[1], a[2]) = last.key
              /\ Held(redis, last.key)[1] =
                    MkCached(a[1], a[2], c.res, c.ti, c.tp, c.w, 0, InitialTTL)

\* a Set on a key whose entry had two hits and a TTL of 20 minutes
C11_Witness ==
    /\ SetDone
    /\ last.prev # << >>
    /\ last.prev[1].HitCount = 2
    /\ last.prev[1].CurrentTTL = 4 * InitialTTL
    /\ Held(redis, last.key)[1].HitCount = 0
    /\ Held(redis, last.key)[1].CurrentTTL = InitialTTL

\* the step is a Get, on an enabled cache, of a key with no live entry
GetOfAbsent == last'.op = "Get" /\ enabled /\ last'.key \notin DOMAIN redis

\* C12 as stated: on an enabled cache a Get for a key with no live entry
\* returns (nil, false), increments the miss counter by exactly one, leaves
\* the hit counter unchanged and creates no entry.
C12_MissOriginal ==
    [][GetOfAbsent =>
          /\ ~last'.found
          /\ last'.ret = << >>
          /\ RInt(redis', StatsMissesKey) = RInt(redis, StatsMissesKey) + 1
          /\ RInt(redis', StatsHitsKey) = RInt(redis, StatsHitsKey)
          /\ EntryKeys(redis') = EntryKeys(redis)]_vars

\* C12 amended: such a Get returns (nil, false), leaves the hit counter
\* unchanged and creates no entry; the miss counter goes up by exactly one
\* when its increment reaches the store and is left as it was when the
\* increment fails.
C12_MissCounted ==
    [][GetOfAbsent =>
          /\ ~last'.found
          /\ last'.ret = << >>
          /\ RInt(redis', StatsMissesKey) =
                RInt(redis, StatsMissesKey) + (IF last'.incrFailed THEN 0 ELSE 1)
          /\ RInt(redis', StatsHitsKey) = RInt(redis, StatsHitsKey)
          /\ EntryKeys(redis') = EntryKeys(redis)
          /\ \A k \in EntryKeys(redis) : redis'[k] = redis[k]]_vars

\* a counted miss on a key whose entry has expired, another entry living on
C12_Witness ==
    /\ last.op = "Get"
    /\ enabled
    /\ ~last.found
    /\ last.prev = << >>
    /\ ~last.incrFailed
    /\ last.key \notin DOMAIN redis
    /\ RInt(redis, StatsMissesKey) = 1
    /\ EntryKeys(redis) # {}

\* the step is a Clear on an enabled cache that returned nil
ClearDone == last'.op = "Clear" /\ enabled /\ ~last'.err

\* C15: a successful Clear on an enabled cache removes every entry stored by
\* Set, so that a following Get of any key is a miss, resets the hit and miss
\* counters to zero, and leaves every key without the cache key prefix as it
\* was.
C15_ClearFrame ==
    /\ [][ClearDone =>
             /\ RKeys(redis', CacheKeyPrefix) = {}
             /\ RInt(redis', StatsHitsKey) = 0
             /\ RInt(redis', StatsMissesKey) = 0
             /\ DOMAIN redis' = DOMAIN redis \ RKeys(redis, CacheKeyPrefix)
             /\ \A k \in DOMAIN redis' : redis'[k] = redis[k]]_vars
    /\ [][(last.op = "Clear" /\ enabled /\ ~last.err /\ last'.op = "Get") =>
             ~last'.found /\ last'.ret = << >>]_vars

\* a Clear that found entries and counters, next to a key of another user
C15_Witness ==
    /\ last.op = "Clear"
    /\ enabled
    /\ ~last.err
    /\ last.found
    /\ DOMAIN redis = {ForeignKey}
    /\ redis[ForeignKey] = ForeignStore[ForeignKey]

\* C16: GetStats reports HitRate = hits / (hits + misses), a ratio between 0
\* and 1 computed from the reported Hits and Misses, and HitRate = 0 when
\* hits + misses = 0.
C16_HitRateRatio ==
    last.op = "GetStats" =>
        LET st    == last.ret[1]
            total == st.Hits + st.Misses
        IN  /\ st.HitRate.den > 0
            /\ total = 0 => st.HitRate.num = 0
            /\ total > 0 => st.HitRate.num * total = st.Hits * st.HitRate.den
            /\ 0 <= st.HitRate.num
            /\ st.HitRate.num <= st.HitRate.den

\* all-zero statistics
ZeroStats == [Hits |-> 0, Misses |-> 0, HitRate |-> ZeroRate, TotalKeys |-> 0]

\* C17: with the cache disabled Get always returns (nil, false), Set and
\* Clear always return nil and no call touches the store, GetStats returns
\* all-zero statistics, and the enabled flag never changes.
C17_Disabled ==
    /\ [](~enabled =>
            /\ last.op = "Get" => ~last.found /\ last.ret = << >>
            /\ last.op \in {"Set", "Clear"} => ~last.err
            /\ last.op = "GetStats" =>
                  /\ last.ret = <<ZeroStats>>
                  /\ last.ret[1].HitRate.num = 0)
    /\ [][~enabled => redis' = redis]_vars
    /\ [][enabled' = enabled]_vars

\* a Get after a Set of the same key on a disabled cache, the store as it was
C17_Witness ==
    /\ ~enabled
    /\ last.op = "Get"
    /\ last.gets = 1
    /\ ~last.found
    /\ redis = ForeignStore

(***************************************************************************)
(* SpecHTTP: the API handler over the cache and the repository.  Requests  *)
(* are answered one after another; between them the store expires keys,    *)
(* and the store and the database fail calls at will.                      *)
(***************************************************************************)
\* models.GetDefaultPackSizes
GetDefaultPackSizes == <<250, 500, 1000, 2000, 5000>>

\* Repository.GetPackSizes: SELECT ... ORDER BY size, the defaults for an
\* empty table
GetPackSizes(db, fails) ==
    IF fails THEN [sizes |-> << >>, err |-> TRUE]
    ELSE [sizes |-> IF db = << >> THEN GetDefaultPackSizes ELSE db,
          err |-> FALSE]

\* Repository.SetPackSizes: one transaction; size is the table's primary key,
\* so a repeated size fails the insert and the transaction is rolled back
SetPackSizes(db, sizes, fails) ==
    IF fails \/ \E a, b \in DOMAIN sizes : a # b /\ sizes[a] = sizes[b]
    THEN [db |-> db, err |-> TRUE]
    ELSE [db |-> SortInts(sizes), err |-> FALSE]

ErrorResponse(code) == [status |-> code]

\* models.CalculateResponse with status 200.  saves is not part of the
\* response: it counts the SaveCalculation calls made while answering.
OkResponse(items, ps, res, ti, tp, w, cached, hits, saves) ==
    [status |-> 200, Items |-> items, PackSizes |-> ps, Result |-> res,
     TotalItems |-> ti, TotalPacks |-> tp, Waste |-> w, Cached |-> cached,
     CacheHitCount |-> hits, saves |-> saves]

\* the requests sent.  A request without sizes is sent once the pack_sizes
\* table has rows: the default sizes make tables of 5000 entries and more.
RequestItems == {0, 4, 6}
RequestSizes == {<< >>, <<5, 3>>, <<0, 3>>}
ConfigSizes == {<<3, 5>>, <<3, 3>>}

\* Repository.SaveCalculation, lines 121-145: one INSERT into calculations
SaveCalculation(items, sizes, res, ti, tp, w, fails) ==
    [calls |-> 1,
     rows  |-> IF fails THEN << >>
               ELSE <<[items |-> items, pack_sizes |-> sizes, result |-> res,
                       total_items |-> ti, total_packs |-> tp, waste |-> w]>>,
     err   |-> fails]

\* faulty variant: a failed save fails the request
ComputedOrFail(en, r, items, sizes, res, f, saveFails) ==
    LET put  == CacheSetOp(en, r, items, sizes, res.PackCounts, res.TotalItems,
                           res.TotalPacks, res.Waste, f)
        hist == SaveCalculation(items, sizes, res.PackCounts, res.TotalItems,
                                res.TotalPacks, res.Waste, saveFails)
    IN  [redis |-> put.redis,
         resp  |-> IF hist.err THEN [status |-> 500, saves |-> hist.calls]
                   ELSE OkResponse(items, sizes, res.PackCounts,
                                   res.TotalItems, res.TotalPacks, res.Waste,
                                   FALSE, 0, hist.calls),
         sizes |-> sizes, saveErr |-> hist.err]

\* lines 130-168 of HandleCalculate: the computed result is cached, saved to
\* the history and sent; the errors of both are only logged
Computed(en, r, items, sizes, res, f, saveFails) ==
    LET put  == CacheSetOp(en, r, items, sizes, res.PackCounts, res.TotalItems,
                           res.TotalPacks, res.Waste, f)
        hist == SaveCalculation(items, sizes, res.PackCounts, res.TotalItems,
                                res.TotalPacks, res.Waste, saveFails)
    IN  [redis |-> put.redis,
         resp  |-> OkResponse(items, sizes, res.PackCounts, res.TotalItems,
                              res.TotalPacks, res.Waste, FALSE, 0, hist.calls),
         sizes |-> sizes, saveErr |-> hist.err]

\* HandleCalculate, lines 64-169.  f.read, f.write and f.incr fail the store
\* calls of cache.Get; f.write also fails the store call of cache.Set.
\* sizes is the list the request was resolved to, << >> if it was not.
HandleCalculateOp(en, r, db, items, ps, f, dbFails, saveFails) ==
    IF items <= 0
    THEN [redis |-> r, resp |-> ErrorResponse(400), sizes |-> << >>,
          saveErr |-> FALSE]
    ELSE
    LET got == IF Len(ps) = 0 THEN GetPackSizes(db, dbFails)
               ELSE [sizes |-> ps, err |-> FALSE]
    IN  IF got.err
        THEN [redis |-> r, resp |-> ErrorResponse(500), sizes |-> << >>,
              saveErr |-> FALSE]
        ELSE IF ~Validate(got.sizes)
        THEN [redis |-> r, resp |-> ErrorResponse(400), sizes |-> got.sizes,
              saveErr |-> FALSE]
        ELSE
        LET looked == GetOp(en, r, items, got.sizes, f)
        IN  IF looked.found
            THEN LET cached == looked.ret[1]
                 IN  [redis |-> looked.redis,
                      resp  |-> OkResponse(cached.Items, cached.PackSizes,
                                           cached.Result, cached.TotalItems,
                                           cached.TotalPacks, cached.Waste,
                                           TRUE, cached.HitCount, 0),
                      sizes |-> got.sizes, saveErr |-> FALSE]
            ELSE Computed(en, looked.redis, items, got.sizes,
                          Calculate(items, got.sizes), f, saveFails)

InitHTTP ==
    /\ order = 0
    /\ packSizes = << >>
    /\ result = NoResult
    /\ run = NoRun
    /\ first = NoFirst
    /\ valid = FALSE
    /\ pc = "http"
    /\ iFill = 0
    /\ win = NoWin
    /\ chunk = 0
    /\ sel = NoBest
    /\ enabled \in BOOLEAN
    /\ redis = EmptyStore
    /\ last = NoLast
    /\ chain = EmptyStore
    /\ tally = NoTally
    /\ dbSizes = << >>
    /\ req = NoReq
    /\ resp = NoResp
    /\ keyIn = << >>
    /\ keyOut = << >>
    /\ pend = << >>
    /\ puts = << >>
    /\ cleared = {}

\* Of the failure flags only those of calls the handler makes are chosen.
HandleFailureCase(items, ps, f, dbFails, saveFails) ==
    LET sizes    == IF ps = << >> THEN dbSizes ELSE ps
        answered == items > 0 /\ ~dbFails /\ Validate(sizes)
        hit      == /\ enabled
                    /\ ~f.read
                    /\ GenerateKey(items, sizes) \in DOMAIN redis
    IN  /\ dbFails => ps = << >> /\ items > 0
        /\ ~(answered /\ enabled) => f = NoFailure
        /\ saveFails => answered /\ ~hit

HandleCalculate(items, ps, f, dbFails, saveFails) ==
    /\ pc = "http"
    /\ ps = << >> => dbSizes # << >>
    /\ HandleFailureCase(items, ps, f, dbFails, saveFails)
    /\ \E out \in {HandleCalculateOp(enabled, redis, dbSizes, items, ps, f,
                                      dbFails, saveFails)} :
       LET ok   == out.resp.status = 200
           prev == IF ok THEN StoredAt(redis, GenerateKey(items, out.sizes))
                   ELSE << >>
       IN  /\ prev # << >> => prev[1].HitCount < MaxHitsHTTP
           /\ (ok /\ out.resp.Cached) =>
                  RInt(redis, StatsHitsKey) <= MaxHitsHTTP
           /\ (ok /\ ~out.resp.Cached) =>
                  RInt(redis, StatsMissesKey) <= MaxMisses
           /\ redis' = out.redis
           /\ req' = [Items |-> items, PackSizes |-> ps, sizes |-> out.sizes]
           /\ resp' = out.resp
           /\ last' = [NoLast EXCEPT !.op = "Calculate",
                                     !.readFailed = f.read,
                                     !.writeFailed = f.write,
                                     !.incrFailed = f.incr,
                                     !.err = out.saveErr]
    /\ UNCHANGED <<idleVars, enabled, chain, tally, dbSizes>>

\* HandleUpdatePackConfig, lines 239-264
HandleUpdatePackConfig(sizes, dbFails) ==
    /\ pc = "http"
    /\ LET out == IF ~Validate(sizes)
                  THEN [db |-> dbSizes, resp |-> ErrorResponse(400)]
                  ELSE LET set == SetPackSizes(dbSizes, sizes, dbFails)
                       IN  [db |-> set.db,
                            resp |-> IF set.err THEN ErrorResponse(500)
                                     ELSE [status |-> 200, PackSizes |-> sizes]]
       IN  /\ dbSizes' = out.db
           /\ req' = [Items |-> 0, PackSizes |-> sizes, sizes |-> << >>]
           /\ resp' = out.resp
           /\ last' = [NoLast EXCEPT !.op = "UpdatePackConfig"]
    /\ UNCHANGED <<idleVars, enabled, redis, chain, tally>>

\* HandleCacheClear, lines 290-297
HandleCacheClear(f) ==
    /\ pc = "http"
    /\ LET out == ClearOp(enabled, redis, f)
       IN  /\ ClearFailureCase(enabled, RKeys(redis, CacheKeyPrefix) # {}, f)
           /\ redis' = out.redis
           /\ req' = NoReq
           /\ resp' = IF out.err THEN ErrorResponse(500)
                      ELSE [status |-> 200, message |-> "Cache cleared successfully"]
           /\ last' = [NoLast EXCEPT !.op = "Clear", !.err = out.err]
    /\ UNCHANGED <<idleVars, enabled, chain, tally, dbSizes>>

NextHTTP ==
    \/ \E items \in RequestItems, ps \in RequestSizes, f \in Failures,
          dbFails \in BOOLEAN, saveFails \in BOOLEAN :
             HandleCalculate(items, ps, f, dbFails, saveFails)
    \/ \E sizes \in ConfigSizes \cup {<<0, 3>>}, dbFails \in BOOLEAN :
          HandleUpdatePackConfig(sizes, dbFails)
    \/ \E f \in Failures : HandleCacheClear(f)
    \/ \E key \in DOMAIN redis : Expire(key)

SpecHTTP == InitHTTP /\ [][NextHTTP]_vars

\* the last request was a calculate request with items > 0 and sizes, given
\* or taken from the pack_sizes table, that are valid
ValidRequest ==
    /\ last.op \in {"Calculate", "Expire"}
    /\ req.Items > 0
    /\ req.sizes # << >>
    /\ \A k \in DOMAIN req.sizes : req.sizes[k] > 0

\* C8: every valid calculate request is answered with status 200 and with
\* Result, TotalItems, TotalPacks and Waste equal to Calculate(items, sizes),
\* whatever requests, Clears, expiries and store failures came before and
\* whether the cache is enabled, disabled, hit or missed.
C8_CacheTransparent ==
    ValidRequest =>
        LET direct == Calculate(req.Items, req.sizes)
        IN  /\ resp.status = 200
            /\ resp.Result = direct.PackCounts
            /\ resp.TotalItems = direct.TotalItems
            /\ resp.TotalPacks = direct.TotalPacks
            /\ resp.Waste = direct.Waste

\* a request for 6 items answered from an entry stored for sizes given in
\* another order, while an entry for 4 items of the same sizes is stored
C8_Witness ==
    /\ last.op = "Calculate"
    /\ req.Items = 6
    /\ req.PackSizes = << >>
    /\ req.sizes = <<3, 5>>
    /\ resp.status = 200
    /\ resp.Cached
    /\ resp.PackSizes = <<5, 3>>
    /\ resp.Result = [k \in {3} |-> 2]
    /\ GenerateKey(4, <<3, 5>>) \in DOMAIN redis

(***************************************************************************)
(* SpecKey: generateKey called on two argument lists, as                   *)
(* TestGenerateCacheKey and TestGenerateCacheKey_DifferentInputs do.       *)
(***************************************************************************)
KeyLen == 3     \* SpecKey: longest list of sizes

KeyItems == {1, 12}
KeySizeValues == {1, 2, 12}
KeySizeLists == UNION {[1..n -> KeySizeValues] : n \in 0..KeyLen}
KeyArgs == KeyItems \X KeySizeLists

InitKey ==
    /\ order = 0
    /\ packSizes = << >>
    /\ result = NoResult
    /\ run = NoRun
    /\ first = NoFirst
    /\ valid = FALSE
    /\ pc = "key"
    /\ iFill = 0
    /\ win = NoWin
    /\ chunk = 0
    /\ sel = NoBest
    /\ enabled \in BOOLEAN
    /\ redis = EmptyStore
    /\ last = NoLast
    /\ chain = EmptyStore
    /\ tally = NoTally
    /\ dbSizes = << >>
    /\ req = NoReq
    /\ resp = NoResp
    /\ keyIn \in KeyArgs \X KeyArgs
    /\ keyOut = << >>
    /\ pend = << >>
    /\ puts = << >>
    /\ cleared = {}

\* generateKey reads nothing of the cache but its arguments
CallGenerateKey ==
    /\ pc = "key"
    /\ keyOut' = <<GenerateKey(keyIn[1][1], keyIn[1][2]),
                   GenerateKey(keyIn[2][1], keyIn[2][2])>>
    /\ pc' = "keyed"
    /\ UNCHANGED <<order, packSizes, result, run, first, valid, streamVars, cacheVars,
                   httpVars, keyIn, pend, puts, cleared>>

NextKey == CallGenerateKey

SpecKey == InitKey /\ [][NextKey]_vars

\* how often v occurs in the list s
Occurrences(s, v) == Cardinality({k \in DOMAIN s : s[k] = v})

\* t is a permutation of s
IsPermutation(s, t) ==
    /\ Len(s) = Len(t)
    /\ \A v \in KeySizeValues : Occurrences(s, v) = Occurrences(t, v)

\* the text of a key: the prefix followed by the rest
KeyText(key) == key.prefix \o key.rest

\* C13: the keys of (q1, S1) and (q2, S2) are equal when q1 = q2 and S2 is a
\* permutation of S1, differ when q1 # q2 or the sorted contents of S1 and S2
\* differ, and every key starts with the cache key prefix.
C13_KeyStable ==
    pc = "keyed" =>
        LET q1 == keyIn[1][1]
            S1 == keyIn[1][2]
            q2 == keyIn[2][1]
            S2 == keyIn[2][2]
        IN  /\ (q1 = q2 /\ IsPermutation(S1, S2)) =>
                   KeyText(keyOut[1]) = KeyText(keyOut[2])
            /\ (q1 # q2 \/ ~IsPermutation(S1, S2)) =>
                   KeyText(keyOut[1]) # KeyText(keyOut[2])
            /\ \A k \in 1..2 : keyOut[k].prefix = CacheKeyPrefix

\* 12 items of <<2, 12, 1>> and of <<1, 2, 12>>: one key; 1 item: another
C13_Witness ==
    /\ pc = "keyed"
    /\ keyIn[1] = <<12, <<2, 12, 1>>>>
    /\ keyIn[2] = <<12, <<1, 2, 12>>>>
    /\ keyOut[1] = keyOut[2]
    /\ keyOut[1] # GenerateKey(1, <<2, 12, 1>>)

\* the distinct values of the list s
Values(s) == {s[k] : k \in DOMAIN s}

\* C14: two argument lists with the same quantity and the same set of
\* distinct sizes get the same key, repeated values included.
C14_DuplicatesIgnored ==
    (/\ pc = "keyed"
     /\ keyIn[1][1] = keyIn[2][1]
     /\ Values(keyIn[1][2]) = Values(keyIn[2][2]))
    => keyOut[1] = keyOut[2]

(***************************************************************************)
(* SpecStore: the cache called directly (SpecCache) or through the handler *)
(* (SpecHTTP), whichever the run starts as.                                *)
(***************************************************************************)
InitStore == InitCache \/ InitHTTP

NextStore == NextCache \/ NextHTTP

SpecStore == InitStore /\ [][NextStore]_vars

\* every store call of the step's operation failed
AllFailed == last'.readFailed /\ last'.writeFailed /\ last'.incrFailed

\* C18: on an enabled cache whose store fails on every call, Get returns
\* (nil, false), Set returns an error and stores nothing, and a calculate
\* request is still answered with status 200 and the freshly computed
\* decomposition.
C18_StoreDown ==
    /\ [][(enabled /\ last'.op = "Get" /\ last'.readFailed
               /\ last'.incrFailed) =>
             /\ ~last'.found
             /\ last'.ret = << >>
             /\ redis' = redis]_vars
    /\ [][(enabled /\ last'.op = "Set" /\ last'.writeFailed) =>
             /\ last'.err
             /\ redis' = redis]_vars
    /\ [][(enabled /\ last'.op = "Calculate" /\ AllFailed) =>
             LET fresh == Calculate(req'.Items, req'.sizes)
             IN  /\ resp'.status = 200
                 /\ ~resp'.Cached
                 /\ resp'.Result = fresh.PackCounts
                 /\ resp'.TotalItems = fresh.TotalItems
                 /\ resp'.TotalPacks = fresh.TotalPacks
                 /\ resp'.Waste = fresh.Waste
                 /\ redis' = redis]_vars

\* a request for 6 items answered afresh while the store, which holds the
\* entry for it, fails every call
C18_Witness ==
    /\ enabled
    /\ last.op = "Calculate"
    /\ last.readFailed /\ last.writeFailed /\ last.incrFailed
    /\ req.Items = 6
    /\ GenerateKey(6, req.sizes) \in DOMAIN redis
    /\ resp.status = 200
    /\ ~resp.Cached
    /\ resp.Result = [k \in {3} |-> 2]

(***************************************************************************)
(* SpecRace: several callers use the cache at once.  Every store call is   *)
(* one step: Set and Clear are one step each, a Get that finds an entry is *)
(* a read step and, later, a write-back step (lines 136 and 164).  The     *)
(* counter increment of a Get is taken together with its last store call.  *)
(***************************************************************************)
NumCallers == 2     \* SpecRace: callers
MaxHitsRace == 3    \* SpecRace: hits followed on an entry

Callers == 1..NumCallers
RaceArgs == {<<2, <<2, 3>>>>}

\* the decompositions handed to Set: two for the same arguments
RaceChoices ==
    { [res |-> [k \in {2, 3} |-> 1], ti |-> 5, tp |-> 2, w |-> 0],
      [res |-> [k \in {3} |-> 2], ti |-> 6, tp |-> 2, w |-> 1] }

\* the decomposition an entry carries
Carried(e) ==
    [res |-> e.Result, ti |-> e.TotalItems, tp |-> e.TotalPacks, w |-> e.Waste]

InitRace ==
    /\ order = 0
    /\ packSizes = << >>
    /\ result = NoResult
    /\ run = NoRun
    /\ first = NoFirst
    /\ valid = FALSE
    /\ pc = "race"
    /\ iFill = 0
    /\ win = NoWin
    /\ chunk = 0
    /\ sel = NoBest
    /\ enabled = TRUE
    /\ redis = EmptyStore
    /\ last = NoLast
    /\ chain = EmptyStore
    /\ tally = NoTally
    /\ dbSizes = << >>
    /\ req = NoReq
    /\ resp = NoResp
    /\ keyIn = << >>
    /\ keyOut = << >>
    /\ pend = [p \in Callers |-> << >>]
    /\ puts = EmptyStore
    /\ cleared = {}

raceIdle == <<order, packSizes, result, run, first, valid, pc, iFill, win, chunk,
              sel, enabled, chain, tally, httpVars, keyIn, keyOut>>

\* lines 133-153 of Get: the read; a miss ends the call
RaceGetRead(p, items, ps, f) ==
    /\ pc = "race"
    /\ pend[p] = << >>
    /\ ~f.write
    /\ LET key == GenerateKey(items, ps)
       IN  IF f.read \/ key \notin DOMAIN redis
           THEN /\ RInt(redis, StatsMissesKey) < MaxMisses
                /\ redis' = IncrementOp(redis, StatsMissesKey, f.incr)
                /\ pend' = pend
                /\ last' = [NoLast EXCEPT !.op = "GetMiss", !.key = key]
           ELSE /\ ~f.incr
                /\ Unmarshal(redis[key].val).HitCount < MaxHitsRace
                /\ redis' = redis
                /\ pend' = [pend EXCEPT ![p] =
                               <<[key |-> key,
                                  hit |-> Touch(Unmarshal(redis[key].val))]>>]
                /\ last' = [NoLast EXCEPT !.op = "GetRead", !.key = key]
    /\ UNCHANGED <<raceIdle, puts, cleared>>

\* lines 163-169 of Get: the write-back of what the read found, and the hit
RaceGetWrite(p, f) ==
    /\ pc = "race"
    /\ pend[p] # << >>
    /\ ~f.read
    /\ LET key   == pend[p][1].key
           hit   == pend[p][1].hit
           saved == SetOp(redis, key, hit, hit.CurrentTTL, f.write)
       IN  /\ RInt(redis, StatsHitsKey) < NumCallers * MaxHitsRace
           /\ redis' = IncrementOp(saved.redis, StatsHitsKey, f.incr)
           /\ last' = [NoLast EXCEPT !.op = "GetWrite", !.key = key,
                                     !.found = TRUE, !.ret = <<hit>>,
                                     !.prev = StoredAt(redis, key),
                                     !.writeFailed = f.write]
    /\ pend' = [pend EXCEPT ![p] = << >>]
    /\ UNCHANGED <<raceIdle, puts, cleared>>

\* Set, lines 173-194: one store call
RaceSet(items, ps, c, f) ==
    /\ pc = "race"
    /\ ~f.read /\ ~f.incr
    /\ \E out \in {CacheSetOp(enabled, redis, items, ps, c.res, c.ti, c.tp,
                               c.w, f)},
          key \in {GenerateKey(items, ps)} :
           /\ redis' = out.redis
           /\ puts' = [k \in DOMAIN puts \cup {key} |->
                          IF k = key
                          THEN (IF key \in DOMAIN puts THEN puts[key] ELSE {})
                               \cup {c}
                          ELSE puts[k]]
           /\ last' = [NoLast EXCEPT !.op = "Set", !.key = key,
                                     !.prev = StoredAt(redis, key),
                                     !.writeFailed = f.write, !.err = out.err]
           /\ cleared' = cleared \ {key}
    /\ UNCHANGED <<raceIdle, pend>>

\* Clear, lines 257-277, taken as one step
RaceClear(f) ==
    /\ pc = "race"
    /\ LET out == ClearOp(enabled, redis, f)
       IN  /\ ClearFailureCase(enabled, RKeys(redis, CacheKeyPrefix) # {}, f)
           /\ redis' = out.redis
           /\ last' = [NoLast EXCEPT !.op = "Clear", !.err = out.err]
           /\ cleared' = IF out.err THEN cleared
                         ELSE cleared \cup EntryKeys(redis)
    /\ UNCHANGED <<raceIdle, pend, puts>>

\* the store drops a key whose TTL has run out
RaceExpire(key) ==
    /\ pc = "race"
    /\ key \in DOMAIN redis
    /\ redis[key].ttl > 0
    /\ redis' = RDel(redis, {key})
    /\ last' = [NoLast EXCEPT !.op = "Expire", !.key = key]
    /\ UNCHANGED <<raceIdle, pend, puts, cleared>>

NextRace ==
    \/ \E p \in Callers, a \in RaceArgs, f \in Failures :
          RaceGetRead(p, a[1], a[2], f)
    \/ \E p \in Callers, f \in Failures : RaceGetWrite(p, f)
    \/ \E a \in RaceArgs, c \in RaceChoices, f \in Failures :
          RaceSet(a[1], a[2], c, f)
    \/ \E f \in Failures : RaceClear(f)
    \/ \E key \in DOMAIN redis : RaceExpire(key)

SpecRace == InitRace /\ [][NextRace]_vars

\* C19: under any interleaving of Gets and Sets for a key, the entry stored
\* under it carries a Result/TotalItems/TotalPacks/Waste that was passed to
\* some Set for that key.
C19_StoredFromSomeSet ==
    \A key \in EntryKeys(redis) :
        /\ key \in DOMAIN puts
        /\ Carried(StoredAt(redis, key)[1]) \in puts[key]

\* a write-back that puts the decomposition of an earlier Set over the one a
\* later Set had stored
C19_Witness ==
    /\ last.op = "GetWrite"
    /\ ~last.writeFailed
    /\ last.prev # << >>
    /\ Carried(last.prev[1]).ti = 6
    /\ last.prev[1].HitCount = 0
    /\ Carried(StoredAt(redis, last.key)[1]).ti = 5
    /\ StoredAt(redis, last.key)[1].HitCount = 1

\* the SaveCalculation calls made while the last request was answered
Saves == IF "saves" \in DOMAIN resp THEN resp.saves ELSE 0

\* C20: SaveCalculation is called exactly once for a request that misses the
\* cache and is computed, and not at all for a request answered from the
\* cache or rejected; whether or not the save fails, the computed request is
\* answered with status 200 and the same body.
C20_SavedOncePerMiss ==
    last.op = "Calculate" =>
        /\ resp.status # 200 => Saves = 0
        /\ (resp.status = 200 /\ resp.Cached) => Saves = 0 /\ ~last.err
        /\ (resp.status = 200 /\ ~resp.Cached) =>
              LET fresh == Calculate(req.Items, req.sizes)
              IN  /\ Saves = 1
                  /\ resp = OkResponse(req.Items, req.sizes, fresh.PackCounts,
                                       fresh.TotalItems, fresh.TotalPacks,
                                       fresh.Waste, FALSE, 0, 1)
        /\ last.err => resp.status = 200 /\ ~resp.Cached

\* a computed request whose save failed, answered 200
C20_Witness ==
    /\ last.op = "Calculate"
    /\ last.err
    /\ req.Items = 4
    /\ resp.status = 200
    /\ ~resp.Cached
    /\ Saves = 1
    /\ resp.Result = [k \in {5} |-> 1]


(***************************************************************************)
(* Properties of the loops of Calculate, on the runs of SpecCalc.          *)
(***************************************************************************)
SetMax(T) == CHOOSE m \in T : \A x \in T : x <= m

RECURSIVE SeqSum(_, _)
SeqSum(s, k) == IF k = 0 THEN 0 ELSE s[k] + SeqSum(s, k - 1)

\* the remainder the backtracking loop holds before its k-th step
RemainderAt(k) == result.TotalItems - SeqSum(run.path, k - 1)

\* C21: for order > 0 and non-empty positive pack sizes Calculate returns;
\* the fill loop takes exactly (order + maxSize) * len(sizes) inner steps;
\* every step of the backtracking loop reads a size >= 1 (never 0) that is
\* no larger than the remainder, and the loop ends at remainder exactly 0.
C21_Terminates ==
    (Done /\ ValidInput) =>
        /\ result.outcome = "returned"
        /\ run.maxSize = SetMax(SizeSet)
        /\ run.fill = (order + run.maxSize) * Len(packSizes)
        /\ run.back = Len(run.path)
        /\ run.back >= 1
        /\ \A k \in 1..Len(run.path) :
              /\ run.path[k] >= 1
              /\ RemainderAt(k) > 0
              /\ RemainderAt(k) - run.path[k] >= 0
        /\ run.stop = 0

\* pairwise-coprime sizes: 10 with {2,3,5} fills 15 * 3 entries and walks
\* back 10 -> 5 -> 0
C21_Witness ==
    /\ Done
    /\ order = 10
    /\ packSizes = <<2, 3, 5>>
    /\ run.fill = 45
    /\ run.path = <<5, 5>>
    /\ run.stop = 0

\* C22: Validate(packSizes) is true exactly when packSizes is non-empty and
\* every member is > 0, whatever the GCD of the sizes, and false otherwise;
\* the call computes no decomposition (result and tables stay untouched).
C22_ValidateExact ==
    /\ (pc \in {"validated", "done"}) =>
          valid = (/\ Len(packSizes) > 0
                   /\ \A i \in 1..Len(packSizes) : packSizes[i] > 0)
    /\ (pc = "validated") => (result = NoResult /\ run = NoRun)

\* sizes with GCD 2 are accepted
C22_Witness ==
    /\ pc = "validated"
    /\ packSizes = <<2, 4>>
    /\ valid = TRUE
    /\ result = NoResult

\* the sizes through which total n is reached with dp[n] packs
Achieving(n) ==
    {s \in SizeSet : /\ s <= n
                     /\ (n - s) \in DOMAIN run.dp
                     /\ run.dp[n - s] # MaxInt32
                     /\ run.dp[n - s] + 1 = run.dp[n]}

\* the counts gathered by following parent from n down to 0
RECURSIVE Follow(_, _)
Follow(parent, n) ==
    IF n <= 0 \/ n \notin DOMAIN parent THEN EmptyMap
    ELSE IF parent[n] <= 0 THEN EmptyMap
    ELSE MapIncr(Follow(parent, n - parent[n]), parent[n])

\* C23: in the tables of a run that returned, for every reachable total
\* n > 0 parent[n] is the smallest size s with dp[n - s] + 1 = dp[n], and
\* the returned PackCounts is the multiset found by following parent from
\* TotalItems down to 0.
C23_AscendingTieBreak ==
    (Done /\ result.outcome = "returned" /\ run.dp # << >>) =>
        /\ \A n \in DOMAIN run.dp \ {0} :
              run.dp[n] # MaxInt32 =>
                  /\ Achieving(n) # {}
                  /\ run.parent[n] = SetMin(Achieving(n))
        /\ result.PackCounts = Follow(run.parent, result.TotalItems)

\* 6 over {2,3,4} is 2+4 and 3+3, both two packs: the walk starts with 2
C23_Witness ==
    /\ Done
    /\ order = 6
    /\ packSizes = <<4, 3, 2>>
    /\ Achieving(6) = {2, 3, 4}
    /\ run.parent[6] = 2
    /\ result.PackCounts = [s \in {2, 4} |-> 1]

\* C24: for order > 0 and non-empty positive pack sizes the returned Waste
\* is strictly less than the largest pack size: the scan of
\* order .. order + maxSize meets a reachable total before the last index.
C24_WasteBelowMaxSize ==
    (Done /\ ValidInput) =>
        /\ result.outcome = "returned"
        /\ result.Waste < SetMax(SizeSet)
        /\ result.TotalItems \in order..(order + run.maxSize - 1)
        /\ run.dp[result.TotalItems] # MaxInt32

\* the largest waste a single size of 5 allows: order 1 ships 5
C24_Witness ==
    /\ Done
    /\ order = 1
    /\ packSizes = <<5>>
    /\ result.Waste = 4
    /\ run.maxSize = 5

(***************************************************************************)
(* SpecPair: two calls of Calculate with the same order, the second on a   *)
(* list with the same values as the first in any order and with any        *)
(* repetition.                                                             *)
(***************************************************************************)
MaxPairOrder == 6   \* orders are drawn from 0 .. MaxPairOrder
MaxPairSize == 4    \* pack sizes are drawn from 1 .. MaxPairSize
PairLen == 3        \* lists have 1 .. PairLen members

PairOrders == 0..MaxPairOrder
PairLists == UNION {[1..n -> 1..MaxPairSize] : n \in 1..PairLen}

Rearranged(ps) == {t \in PairLists : Values(t) = Values(ps)}

InitPair ==
    /\ order \in PairOrders
    /\ packSizes \in PairLists
    /\ result = NoResult
    /\ run = NoRun
    /\ first = NoFirst
    /\ valid = FALSE
    /\ pc = "first"
    /\ iFill = 0
    /\ chunk = 0
    /\ win = NoWin
    /\ sel = NoBest
    /\ CacheIdle

PairFirst ==
    /\ pc = "first"
    /\ \E done \in {CalcRun(order, packSizes)} :
          /\ result' = done.res
          /\ run' = done.run
    /\ pc' = "second"
    /\ UNCHANGED <<order, packSizes, first, valid, streamVars, cacheVars,
                   httpVars, auxVars>>

PairSecond ==
    /\ pc = "second"
    /\ first' = [packSizes |-> packSizes, result |-> result]
    /\ \E ps2 \in Rearranged(packSizes) :
          /\ packSizes' = ps2
          /\ \E done \in {CalcRun(order, ps2)} :
                /\ result' = done.res
                /\ run' = done.run
    /\ pc' = "both"
    /\ UNCHANGED <<order, valid, streamVars, cacheVars, httpVars, auxVars>>

NextPair == PairFirst \/ PairSecond

SpecPair == InitPair /\ [][NextPair]_vars

\* C25: two calls of Calculate with the same order on lists holding the
\* same set of distinct positive values, in any order and with any
\* repetition, return the same PackCounts, TotalItems, TotalPacks and Waste.
C25_SameValuesSameResult ==
    (/\ pc = "both"
     /\ Values(first.packSizes) = Values(packSizes)
     /\ \A v \in Values(packSizes) : v > 0) =>
        /\ result.outcome = "returned"
        /\ first.result.outcome = "returned"
        /\ result.PackCounts = first.result.PackCounts
        /\ result.TotalItems = first.result.TotalItems
        /\ result.TotalPacks = first.result.TotalPacks
        /\ result.Waste = first.result.Waste

\* [2 3] and [3 2 3] both turn 5 into 2 + 3
C25_Witness ==
    /\ pc = "both"
    /\ order = 5
    /\ first.packSizes = <<2, 3>>
    /\ packSizes = <<3, 2, 3>>
    /\ first.result.PackCounts = [s \in {2, 3} |-> 1]
    /\ result.PackCounts = [s \in {2, 3} |-> 1]

(***************************************************************************)
(* Properties of the statistics, on the runs of SpecCache.                 *)
(***************************************************************************)
StatsDone == last.op = "GetStats" /\ last.ret # << >>

\* C26: on an enabled cache whose store calls have all succeeded, GetStats
\* reports as Hits the Gets that returned found = true since the last Clear
\* and as Misses those that returned found = false; the two counters of the
\* store hold these numbers after every call, so Set changes neither.
C26_StatsCountGets ==
    (enabled /\ tally.clean) =>
        /\ RInt(redis, StatsHitsKey) = tally.hits
        /\ RInt(redis, StatsMissesKey) = tally.misses
        /\ (StatsDone /\ ~last.readFailed /\ ~last.writeFailed) =>
              /\ last.ret[1].Hits = tally.hits
              /\ last.ret[1].Misses = tally.misses

\* two hits and a miss, read back by GetStats
C26_Witness ==
    /\ enabled
    /\ tally = [hits |-> 2, misses |-> 1, clean |-> TRUE]
    /\ StatsDone
    /\ last.ret[1].Hits = 2
    /\ last.ret[1].Misses = 1

\* C29: the TotalKeys an enabled cache reports when its KEYS call succeeds is
\* the number of cached entries in the store; the two counter keys are not
\* counted.
C29_TotalKeysEntries ==
    (enabled /\ StatsDone /\ ~last.incrFailed) =>
        last.ret[1].TotalKeys = Cardinality(EntryKeys(redis))

\* a Get that read a live entry and whose write-back failed
HitNotWritten == last'.op = "Get" /\ last'.found /\ last'.writeFailed

\* C30 as stated: such a Get returns found = true with HitCount + 1 and the
\* doubled, capped CurrentTTL, counts one hit, and leaves the stored entry
\* and its expiry as they were.
C30_HitNotWrittenOriginal ==
    [][HitNotWritten =>
          /\ last'.ret[1].HitCount = last'.prev[1].HitCount + 1
          /\ last'.ret[1].CurrentTTL = NextTTL(last'.prev[1].CurrentTTL)
          /\ RInt(redis', StatsHitsKey) = RInt(redis, StatsHitsKey) + 1
          /\ redis'[last'.key] = redis[last'.key]]_vars

\* C30 amended: such a Get returns found = true with HitCount + 1 and the
\* doubled, capped CurrentTTL, and leaves every entry and every expiry of the
\* store as it was; the hit counter goes up by one when its increment reaches
\* the store and stays when the increment fails too.
C30_HitNotWritten ==
    [][HitNotWritten =>
          /\ last'.prev = StoredAt(redis, last'.key)
          /\ last'.ret[1].HitCount = last'.prev[1].HitCount + 1
          /\ last'.ret[1].CurrentTTL = NextTTL(last'.prev[1].CurrentTTL)
          /\ RInt(redis', StatsHitsKey) =
                RInt(redis, StatsHitsKey) + (IF last'.incrFailed THEN 0 ELSE 1)
          /\ RInt(redis', StatsMissesKey) = RInt(redis, StatsMissesKey)
          /\ \A k \in DOMAIN redis \ {StatsHitsKey} : redis'[k] = redis[k]
          /\ DOMAIN redis' \ {StatsHitsKey} = DOMAIN redis \ {StatsHitsKey}]_vars

\* the second Get of an entry: (2, 20) returned and counted, (1, 10) stored
C30_Witness ==
    /\ last.op = "Get"
    /\ last.found
    /\ last.writeFailed
    /\ ~last.incrFailed
    /\ last.ret[1].HitCount = 2
    /\ last.ret[1].CurrentTTL = 20
    /\ StoredAt(redis, last.key) = last.prev
    /\ last.prev[1].HitCount = 1
    /\ redis[last.key].ttl = 10
    /\ RInt(redis, StatsHitsKey) = 2

(***************************************************************************)
(* Properties of concurrent callers, on the runs of SpecRace.              *)
(***************************************************************************)
GetStep == last'.op \in {"GetRead", "GetMiss", "GetWrite"}

\* C27 as stated: while a key keeps its entry, no step of a Get (its read or
\* its write-back, whatever the interleaving with other Gets on that key)
\* lowers the HitCount or the CurrentTTL of the stored entry.
C27_NeverDecreases ==
    [][GetStep =>
          \A key \in EntryKeys(redis) \cap EntryKeys(redis') :
              /\ StoredAt(redis', key)[1].HitCount >=
                     StoredAt(redis, key)[1].HitCount
              /\ StoredAt(redis', key)[1].CurrentTTL >=
                     StoredAt(redis, key)[1].CurrentTTL]_vars

\* C27: while a key keeps its entry, the read of a Get leaves the entry as
\* it is, and a write-back that reaches the store replaces it by what that
\* Get computed from its own read (last writer wins); when the entry it read
\* is still the stored one, HitCount goes up by one and CurrentTTL does not
\* go down.
C27_LastWriterWins ==
    [][GetStep =>
          \A key \in EntryKeys(redis) \cap EntryKeys(redis') :
              LET old == StoredAt(redis, key)[1]
                  new == StoredAt(redis', key)[1]
              IN  IF /\ last'.op = "GetWrite"
                     /\ last'.key = key
                     /\ ~last'.writeFailed
                  THEN /\ new = last'.ret[1]
                       /\ redis'[key].ttl = new.CurrentTTL
                       /\ (last'.ret[1] = Touch(old)) =>
                             /\ new.HitCount = old.HitCount + 1
                             /\ new.CurrentTTL >= old.CurrentTTL
                  ELSE redis'[key] = redis[key]]_vars

\* a write-back that put (1, 10) over the (2, 20) of two later Gets
C27_Witness ==
    /\ last.op = "GetWrite"
    /\ ~last.writeFailed
    /\ last.prev # << >>
    /\ last.prev[1].HitCount = 2
    /\ last.prev[1].CurrentTTL = 20
    /\ StoredAt(redis, last.key) = last.ret
    /\ last.ret[1].HitCount = 1
    /\ last.ret[1].CurrentTTL = 10

\* C28: a key whose entry a successful Clear removed, and for which Set has
\* not been called since, holds no entry, and a Get for it reads none, even
\* when a Get that had read the entry before the Clear writes back after it.
C28_ClearedStaysGone ==
    /\ \A key \in cleared : key \notin EntryKeys(redis)
    /\ (last.op = "GetRead") => (last.key \notin cleared)

=============================================================================
